---- MODULE Spec2Model ----
(***************************************************************************)
(* Model of the AI ORM generator: the POST /api/generate endpoint          *)
(* (app/api.py), the orchestrator generate_filters_with_ai with its        *)
(* fence-stripping post-processing (app/ai_orm.py) and the LLM client      *)
(* AIService.chat (services/ai_service.py).                                *)
(*                                                                         *)
(* Text is a sequence of characters, so that str.strip and the regular     *)
(* expression of run_chat are computed character by character.             *)
(***************************************************************************)
EXTENDS Integers, Sequences, FiniteSets, TLC

VARIABLES
    SECRET,       \* api.py: module-level SECRET = os.getenv("BACKEND_SECRET")
    pc,           \* per request: position of its handler
    header,       \* per request: the backend_secret header (optional string)
    query,        \* per request: req.query
    exchange,     \* per request: the chat-completion exchange with the provider
    calls,        \* per request: chat-completion requests issued
    invoked,      \* per request: invocations of generate_filters_with_ai
    response,     \* per request: what the endpoint produced
    raw,          \* sanitization harness: the raw reply
    out,          \* sanitization harness: the sanitized reply
    out2,         \* sanitization harness: the sanitized reply, sanitized again
    spc           \* sanitization harness: position

vars == <<SECRET, pc, header, query, exchange, calls, invoked, response,
          raw, out, out2, spc>>

reqVars == <<SECRET, pc, header, query, exchange, calls, invoked, response>>
sanVars == <<raw, out, out2, spc>>

-----------------------------------------------------------------------------
(* Bounds *)

NReq == 2          \* concurrently handled requests
MaxPieces == 5     \* pieces a raw reply of the sanitization harness is made of
MaxBody == 2       \* pieces the body of a fenced reply is made of

-----------------------------------------------------------------------------
(* Text *)

\* The backtick character (the string syntax of TLA+ has no backtick).
Backtick == "BACKTICK"

Fence == <<Backtick, Backtick, Backtick>>
Python == <<"p", "y", "t", "h", "o", "n">>
Sql == <<"s", "q", "l">>
NL == <<"\n">>
SP == <<" ">>

\* Characters that str.strip() and the regex class \s treat as whitespace.
Whitespace == {" ", "\n", "\t"}

IsSpace(c) == c \in Whitespace

\* str.strip(): drop the leading and the trailing whitespace run.
strip(s) ==
    LET keep == {i \in 1..Len(s) : ~IsSpace(s[i])}
    IN  IF keep = {} THEN <<>>
        ELSE LET lo == CHOOSE i \in keep : \A j \in keep : i <= j
                 hi == CHOOSE i \in keep : \A j \in keep : j <= i
             IN  SubSeq(s, lo, hi)

\* The word w stands in s at position i.
HasAt(s, i, w) ==
    /\ i >= 1
    /\ i + Len(w) - 1 <= Len(s)
    /\ SubSeq(s, i, i + Len(w) - 1) = w

\* Greedy \s* from position i: the first position at or after i that holds
\* no whitespace (Len(s) + 1 when the run reaches the end).
WsEnd(s, i) ==
    CHOOSE j \in i..(Len(s) + 1) :
        /\ \A k \in i..(j - 1) : IsSpace(s[k])
        /\ (j = Len(s) + 1 \/ ~IsSpace(s[j]))

\* ^ under re.MULTILINE: the start of the text or just after a newline.
AtLineStart(s, i) == i = 1 \/ s[i - 1] = "\n"

\* $ under re.MULTILINE: the end of the text or just before a newline.
AtLineEnd(s, i) == i = Len(s) + 1 \/ s[i] = "\n"

\* Variant: the pattern without its (?:python)? group.
MatchOpenNoPython(s, i) ==
    IF AtLineStart(s, i) /\ HasAt(s, i, Fence)
    THEN WsEnd(s, i + Len(Fence))
    ELSE 0

\* Variant: the first alternative without its ^ anchor.
MatchOpenUnanchored(s, i) ==
    IF HasAt(s, i, Fence)
    THEN LET j == i + Len(Fence)
             k == IF HasAt(s, j, Python) THEN j + Len(Python) ELSE j
         IN  WsEnd(s, k)
    ELSE 0

\* Variant: the fence of the first alternative optional,
\* ^(?:```)?(?:python)?\s* restricted to its non-empty matches.
MatchOpenBareTag(s, i) ==
    IF AtLineStart(s, i) /\ (HasAt(s, i, Fence) \/ HasAt(s, i, Python))
    THEN LET j == IF HasAt(s, i, Fence) THEN i + Len(Fence) ELSE i
             k == IF HasAt(s, j, Python) THEN j + Len(Python) ELSE j
         IN  WsEnd(s, k)
    ELSE 0

\* First alternative  ^```(?:python)?\s*  tried at position i: the position
\* after the match, 0 when it does not match.
MatchOpen(s, i) ==
    IF AtLineStart(s, i) /\ HasAt(s, i, Fence)
    THEN LET j == i + Len(Fence)
             k == IF HasAt(s, j, Python) THEN j + Len(Python) ELSE j
         IN  WsEnd(s, k)
    ELSE 0

\* Second alternative  \s*```$  tried at position i.  A shorter whitespace
\* run cannot help: the character after it is whitespace, not a backtick.
MatchClose(s, i) ==
    LET j == WsEnd(s, i)
    IN  IF HasAt(s, j, Fence) /\ AtLineEnd(s, j + Len(Fence)) THEN j + Len(Fence) ELSE 0

\* The pattern tried at position i, first alternative first.
MatchAt(s, i) ==
    IF MatchOpen(s, i) # 0 THEN MatchOpen(s, i) ELSE MatchClose(s, i)

\* re.sub(pattern, "", s): scan left to right, drop every match (no match
\* of this pattern is empty), keep every other character.
RECURSIVE SubFrom(_, _)
SubFrom(s, i) ==
    IF i > Len(s) THEN <<>>
    ELSE LET e == MatchAt(s, i)
         IN  IF e # 0 THEN SubFrom(s, e) ELSE <<s[i]>> \o SubFrom(s, i + 1)

re_sub(s) == SubFrom(s, 1)

\* Variant: without the final .strip().
sanitizeNoFinalStrip(r) == re_sub(strip(r))

\* run_chat's post-processing of the raw reply.
sanitize(r) == strip(re_sub(strip(r)))

-----------------------------------------------------------------------------
(* Raw replies the sanitization is applied to *)

Pieces == {Fence, Python, NL, SP, <<"x">>, <<Backtick>>}

\* Every text made of at most n pieces.
RECURSIVE Texts(_)
Texts(n) ==
    IF n = 0 THEN {<<>>}
    ELSE LET T == Texts(n - 1) IN T \cup {t \o p : t \in T, p \in Pieces}

\* Language hints an opening fence may carry.
Hints == {<<>>, Python, Sql}

\* opening fence, hint, newline, body, newline, closing fence
Fenced(h, b) == Fence \o h \o NL \o b \o NL \o Fence

FencedReplies == {Fenced(h, b) : h \in Hints, b \in Texts(MaxBody)}

RawReplies == Texts(MaxPieces) \cup FencedReplies

-----------------------------------------------------------------------------
(* The sanitization of run_chat applied to one raw reply, then to its own  *)
(* result.                                                                 *)

NoText == <<"-">>

InitSan ==
    /\ raw \in RawReplies
    /\ out = NoText
    /\ out2 = NoText
    /\ spc = "raw"
    /\ SECRET = <<>>
    /\ pc = <<>>
    /\ header = <<>>
    /\ query = <<>>
    /\ exchange = <<>>
    /\ calls = <<>>
    /\ invoked = <<>>
    /\ response = <<>>

Sanitize ==
    /\ spc = "raw"
    /\ out' = sanitize(raw)
    /\ spc' = "clean"
    /\ UNCHANGED <<raw, out2, reqVars>>

Resanitize ==
    /\ spc = "clean"
    /\ out2' = sanitize(out)
    /\ spc' = "again"
    /\ UNCHANGED <<raw, out, reqVars>>

NextSan == Sanitize \/ Resanitize

SpecSan == InitSan /\ [][NextSan]_vars

-----------------------------------------------------------------------------
(* The endpoint, the orchestrator and the LLM client *)

Reqs == 1..NReq

\* Optional strings: None is the empty tuple, a string s is <<s>>.
None == <<>>
Some(s) == <<s>>

\* Python truthiness of an optional string: None and "" are falsy.
Truthy(v) == v # None /\ v # Some("")

\* Values of the environment variable BACKEND_SECRET (unset, empty, set).
SecretValues == {None, Some(""), Some("s3cret")}

\* Values of the backend_secret header (missing, empty, right, wrong).
HeaderValues == {None, Some(""), Some("s3cret"), Some("guess")}

Queries == {"female engineers", "count all"}

\* Environment configuration read by AIService.
AI_MODEL == "model-1"
AI_API_KEY == "sk-key"

\* AIService.chat: max_tokens=1024
MaxTokens == 1024

\* The f-string of generate_filters_with_ai: the fixed instructions with the
\* query interpolated between quotes near the end.
Prompt(q) == <<"You are a Django ORM query generator ... QUERY:", q, "\n\n">>

\* run_chat: messages=[{"role": "user", "content": prompt}]
Messages(q) == << [role |-> "user", content |-> Prompt(q)] >>

\* AIService.chat: the one chat.completions.create request.
CompletionRequest(q) ==
    [model |-> AI_MODEL, messages |-> Messages(q), max_tokens |-> MaxTokens]

\* response.choices[0].message.content: a text, or None.
ReplyTexts ==
    {Fenced(h, <<"x">>) : h \in Hints}
        \cup {<<"x">>, SP \o <<"x">> \o NL, Fence \o <<"x">>, Python \o SP \o <<"x">>,
              <<>>, <<"x">> \o Fence \o NL \o <<"x">>}

Contents == {None} \cup {Some(t) : t \in ReplyTexts}

\* Exceptions the provider client raises.
ProviderErrors ==
    { [type |-> "APIConnectionError", text |-> <<"connection failed">>],
      [type |-> "AuthenticationError", text |-> <<"incorrect API key", AI_API_KEY>>],
      [type |-> "RateLimitError", text |-> <<"rate limited">>],
      [type |-> "APIResponseValidationError", text |-> <<"malformed response">>] }

\* raw.strip() on a None content.
AttributeError == [type |-> "AttributeError", text |-> <<"NoneType has no strip">>]

NoExchange == [state |-> "none"]
NoResponse == [kind |-> "none"]

\* raise HTTPException(status_code=401, detail="Invalid credentials")
Http401 == [kind |-> "http", status |-> 401, detail |-> "Invalid credentials"]

\* The response model of the endpoint: one field, orm.
QueryResponse(orm) == [orm |-> orm]

\* return QueryResponse(orm=orm)
Http200(body) == [kind |-> "http", status |-> 200, body |-> body]

\* An exception that leaves generate uncaught.
Unhandled(e) == [kind |-> "unhandled_exception", exc |-> e]

\* Variant: only `not backend_secret`.
UnauthorizedNoCompare(h) == ~Truthy(h)

\* Variant: only `backend_secret != SECRET`.
UnauthorizedNoTruthiness(h) == h # SECRET

\* generate: if not backend_secret or backend_secret != SECRET
Unauthorized(h) == ~Truthy(h) \/ h # SECRET

Init ==
    /\ SECRET \in SecretValues
    /\ pc = [r \in Reqs |-> "new"]
    /\ header = [r \in Reqs |-> None]
    /\ query = [r \in Reqs |-> ""]
    /\ exchange = [r \in Reqs |-> NoExchange]
    /\ calls = [r \in Reqs |-> 0]
    /\ invoked = [r \in Reqs |-> 0]
    /\ response = [r \in Reqs |-> NoResponse]
    /\ raw = <<>>
    /\ out = NoText
    /\ out2 = NoText
    /\ spc = "off"

\* The framework accepts a request (valid body) and hands it to generate.
Receive(r, h, q) ==
    /\ pc[r] = "new"
    /\ header' = [header EXCEPT ![r] = h]
    /\ query' = [query EXCEPT ![r] = q]
    /\ pc' = [pc EXCEPT ![r] = "received"]
    /\ UNCHANGED <<SECRET, exchange, calls, invoked, response, sanVars>>

\* generate up to its suspension: the 401, or generate_filters_with_ai
\* building the client and the prompt and run_chat issuing the one
\* completion request and awaiting it.
generate(r) ==
    /\ pc[r] = "received"
    /\ IF Unauthorized(header[r])
       THEN /\ response' = [response EXCEPT ![r] = Http401]
            /\ pc' = [pc EXCEPT ![r] = "done"]
            /\ UNCHANGED <<exchange, calls, invoked>>
       ELSE /\ invoked' = [invoked EXCEPT ![r] = @ + 1]
            /\ calls' = [calls EXCEPT ![r] = @ + 1]
            /\ exchange' = [exchange EXCEPT ![r] =
                   [state |-> "pending", request |-> CompletionRequest(query[r])]]
            /\ pc' = [pc EXCEPT ![r] = "awaiting"]
            /\ UNCHANGED response
    /\ UNCHANGED <<SECRET, header, query, sanVars>>

\* The provider answers the request of r with content c.
ProviderReply(r, c) ==
    /\ exchange[r].state = "pending"
    /\ exchange' = [exchange EXCEPT ![r] =
           [state |-> "resolved", request |-> @.request, content |-> c]]
    /\ UNCHANGED <<SECRET, pc, header, query, calls, invoked, response, sanVars>>

\* The exchange of r fails: the client raises e.
ProviderError(r, e) ==
    /\ exchange[r].state = "pending"
    /\ exchange' = [exchange EXCEPT ![r] =
           [state |-> "failed", request |-> @.request, error |-> e]]
    /\ UNCHANGED <<SECRET, pc, header, query, calls, invoked, response, sanVars>>

\* Variant: the raw reply returned as it came.
OutcomeUnsanitized(x) ==
    IF x.state = "failed" THEN Unhandled(x.error)
    ELSE IF x.content = None THEN Unhandled(AttributeError)
    ELSE Http200(QueryResponse(x.content[1]))

\* What generate produces once the awaited exchange x is over: the
\* sanitized reply in the response model, or the exception that nothing on
\* the way (chat, run_chat, asyncio.run, generate) catches.
Outcome(x) ==
    IF x.state = "failed" THEN Unhandled(x.error)
    ELSE IF x.content = None THEN Unhandled(AttributeError)
    ELSE Http200(QueryResponse(sanitize(x.content[1])))

\* Variant: a failed exchange is tried again.
ResumeRetry(r) ==
    /\ pc[r] = "awaiting"
    /\ exchange[r].state \in {"resolved", "failed"}
    /\ IF exchange[r].state = "failed" /\ calls[r] < 3
       THEN /\ calls' = [calls EXCEPT ![r] = @ + 1]
            /\ exchange' = [exchange EXCEPT ![r] =
                   [state |-> "pending", request |-> @.request]]
            /\ UNCHANGED <<pc, response>>
       ELSE /\ response' = [response EXCEPT ![r] = Outcome(exchange[r])]
            /\ pc' = [pc EXCEPT ![r] = "done"]
            /\ UNCHANGED <<calls, exchange>>
    /\ UNCHANGED <<SECRET, header, query, invoked, sanVars>>

\* Variant: raw kept in a variable shared by all requests.
ResumeSharedRaw(r) ==
    /\ pc[r] = "awaiting"
    /\ exchange[r].state \in {"resolved", "failed"}
    /\ \E o \in Reqs :
        /\ exchange[o].state \in {"resolved", "failed"}
        /\ response' = [response EXCEPT ![r] = Outcome(exchange[o])]
    /\ pc' = [pc EXCEPT ![r] = "done"]
    /\ UNCHANGED <<SECRET, header, query, exchange, calls, invoked, sanVars>>

\* run_chat resumes after its await and generate returns.
Resume(r) ==
    /\ pc[r] = "awaiting"
    /\ exchange[r].state \in {"resolved", "failed"}
    /\ response' = [response EXCEPT ![r] = Outcome(exchange[r])]
    /\ pc' = [pc EXCEPT ![r] = "done"]
    /\ UNCHANGED <<SECRET, header, query, exchange, calls, invoked, sanVars>>

Next ==
    \E r \in Reqs :
        \/ \E h \in HeaderValues, q \in Queries : Receive(r, h, q)
        \/ generate(r)
        \/ \E c \in Contents : ProviderReply(r, c)
        \/ \E e \in ProviderErrors : ProviderError(r, e)
        \/ Resume(r)

Spec == Init /\ [][Next]_vars

-----------------------------------------------------------------------------
(* Properties of the sanitization (specification SpecSan) *)

\* s holds a fence marker somewhere.
HasFence(s) == \E i \in 1..Len(s) : HasAt(s, i, Fence)

\* s neither starts nor ends with whitespace.
CleanEnds(s) == s = <<>> \/ (~IsSpace(s[1]) /\ ~IsSpace(s[Len(s)]))

\* t is s without its surrounding whitespace.
IsTrimOf(t, s) ==
    \E i \in 0..Len(s) : \E j \in i..Len(s) :
        /\ t = SubSeq(s, i + 1, j)
        /\ CleanEnds(t)
        /\ \A k \in 1..i : IsSpace(s[k])
        /\ \A k \in (j + 1)..Len(s) : IsSpace(s[k])

\* t is s minus a prefix and a suffix.
IsSubstring(t, s) ==
    \E i \in 1..(Len(s) + 1) : \E j \in (i - 1)..Len(s) : SubSeq(s, i, j) = t

\* t is s with some characters deleted: t from position i on embeds, in
\* order, in s from position j on.
RECURSIVE EmbedsFrom(_, _, _, _)
EmbedsFrom(t, i, s, j) ==
    IF i > Len(t) THEN TRUE
    ELSE IF j > Len(s) THEN FALSE
    ELSE IF t[i] = s[j] THEN EmbedsFrom(t, i + 1, s, j + 1)
    ELSE EmbedsFrom(t, i, s, j + 1)

IsSubsequence(t, s) == EmbedsFrom(t, 1, s, 1)

\* The body of a reply r of the form: fence, hint h, newline, body, newline,
\* fence.
BodyOf(r, h) ==
    SubSeq(r, Len(Fence) + Len(h) + 2, Len(r) - Len(Fence) - 1)

IsFencedWith(r, h) ==
    /\ Len(r) >= 2 * Len(Fence) + Len(h) + 2
    /\ r = Fenced(h, BodyOf(r, h))

\* The only fence marker at the start of a line opens the trimmed reply and
\* the only one at the end of a line closes it.
EdgeFencesOnly(r) ==
    LET t == strip(r)
    IN  \A p \in 1..Len(t) :
            HasAt(t, p, Fence) =>
                /\ AtLineStart(t, p) => p = 1
                /\ AtLineEnd(t, p + Len(Fence)) => p + Len(Fence) - 1 = Len(t)

\* C3 (as stated): a reply that is a fence with any language hint, a newline,
\* a body free of fence markers and of surrounding whitespace, a newline and
\* a fence sanitizes to exactly the body.
C3_AnyHint ==
    spc # "raw" =>
        \A h \in Hints :
            (IsFencedWith(raw, h) /\ ~HasFence(BodyOf(raw, h))
                /\ CleanEnds(BodyOf(raw, h)))
            => out = BodyOf(raw, h)

\* C3 (amended): the same with the opening fence bare or tagged python, the
\* one hint the pattern knows.
C3_FencedBlock ==
    spc # "raw" =>
        \A h \in {<<>>, Python} :
            (IsFencedWith(raw, h) /\ ~HasFence(BodyOf(raw, h))
                /\ CleanEnds(BodyOf(raw, h)))
            => out = BodyOf(raw, h)

C3_Witness ==
    /\ spc = "clean"
    /\ raw = Fenced(Python, Python \o <<"x">>)
    /\ out = Python \o <<"x">>

\* C4 (as stated): sanitizing the sanitized reply changes nothing.
C4_Idempotent == spc = "again" => out2 = out

\* C4 (amended): sanitizing a sanitized reply that holds no fence marker
\* changes nothing.
C4_IdempotentOnClean == (spc = "again" /\ ~HasFence(out)) => out2 = out

C4_Witness ==
    /\ spc = "again"
    /\ HasFence(raw)
    /\ out # <<>>
    /\ ~HasFence(out)
    /\ out2 = out

\* C7: a reply without a fence marker comes back with only its surrounding
\* whitespace trimmed.
C7_PassThrough == (spc # "raw" /\ ~HasFence(raw)) => IsTrimOf(out, raw)

C7_Witness ==
    /\ spc = "clean"
    /\ ~HasFence(raw)
    /\ HasAt(raw, 2, Python)
    /\ \E i \in 1..Len(raw) : raw[i] = Backtick
    /\ out # raw
    /\ IsTrimOf(out, raw)

\* C9 (as stated): the sanitized reply is a contiguous substring of the raw
\* reply.
C9_Contiguous == spc # "raw" => IsSubstring(out, raw)

\* C9 (amended): the sanitized reply is the raw reply with characters
\* deleted, and a contiguous substring of it when no interior line of the
\* trimmed reply starts or ends with a fence marker.
C9_DeletesOnly ==
    spc # "raw" =>
        /\ IsSubsequence(out, raw)
        /\ EdgeFencesOnly(raw) => IsSubstring(out, raw)

C9_Witness ==
    /\ spc = "clean"
    /\ HasFence(raw)
    /\ EdgeFencesOnly(raw)
    /\ out # <<>>
    /\ out # strip(raw)
    /\ IsSubstring(out, raw)

-----------------------------------------------------------------------------
(* Properties of the endpoint (specification Spec) *)

\* The header of r is missing, empty or different from the configured secret.
BadHeader(r) ==
    header[r] = None \/ header[r] = Some("") \/ header[r] # SECRET

\* r has been received with a non-empty header equal to the configured secret.
Authenticated(r) == pc[r] # "new" /\ ~BadHeader(r)

Is401(x) == x.kind = "http" /\ x.status = 401

\* C1: a request whose header is missing, empty or different from the
\* configured secret is answered 401, and neither the orchestrator nor an
\* LLM call is ever started for it.
C1_RejectsBadHeader ==
    \A r \in Reqs :
        (pc[r] # "new" /\ BadHeader(r)) =>
            /\ invoked[r] = 0
            /\ calls[r] = 0
            /\ exchange[r] = NoExchange
            /\ pc[r] \in {"received", "done"}
            /\ pc[r] = "done" => Is401(response[r])

C1_Witness ==
    \E r \in Reqs :
        /\ SECRET = Some("s3cret")
        /\ header[r] = Some("guess")
        /\ pc[r] = "done"
        /\ Is401(response[r])
        /\ calls[r] = 0

C5_ProviderErrorHandled ==
    \A r \in Reqs :
        (pc[r] = "done" /\ exchange[r].state = "failed") =>
            /\ response[r].kind = "http"
            /\ response[r].status \in 500..599
            /\ \A i \in 1..Len(response[r].detail) :
                   response[r].detail[i] # AI_API_KEY

\* C6: an authenticated request issues exactly one chat-completion request,
\* never a second one, and its response exists only once that exchange has
\* resolved or failed.
C6_SingleAttempt ==
    \A r \in Reqs :
        /\ calls[r] <= 1
        /\ invoked[r] <= 1
        /\ (Authenticated(r) /\ pc[r] \in {"awaiting", "done"}) =>
               /\ calls[r] = 1
               /\ invoked[r] = 1
        /\ (Authenticated(r) /\ response[r] # NoResponse) =>
               /\ pc[r] = "done"
               /\ exchange[r].state \in {"resolved", "failed"}
        /\ exchange[r].state = "pending" => response[r] = NoResponse

C6_Witness ==
    \E r \in Reqs :
        /\ Authenticated(r)
        /\ pc[r] = "done"
        /\ exchange[r].state = "failed"
        /\ calls[r] = 1
        /\ response[r] # NoResponse

\* The outcome of r computed from its own header and its own exchange.
OwnOutcome(r) ==
    IF BadHeader(r) THEN Http401
    ELSE IF exchange[r].state = "failed" THEN Unhandled(exchange[r].error)
    ELSE IF exchange[r].content = None THEN Unhandled(AttributeError)
    ELSE Http200([orm |-> sanitize(exchange[r].content[1])])

\* Everything the model keeps for request r.
ReqState(r) ==
    <<pc[r], header[r], query[r], exchange[r], calls[r], invoked[r], response[r]>>

\* C8: under every interleaving the outcome of a request is decided by its
\* own header, its own query and the reply to its own call; a step touches
\* the state of one request only; the configured secret never changes.
C8_Independent ==
    /\ [](\A r \in Reqs :
            /\ pc[r] = "done" => response[r] = OwnOutcome(r)
            /\ exchange[r] # NoExchange =>
                   exchange[r].request.messages = Messages(query[r]))
    /\ [][/\ SECRET' = SECRET
          /\ \A r, o \in Reqs :
                 (ReqState(r)' # ReqState(r) /\ o # r) => ReqState(o)' = ReqState(o)
         ]_vars

C8_Witness ==
    \E r, o \in Reqs :
        /\ r # o
        /\ pc[r] = "done"
        /\ pc[o] = "done"
        /\ query[r] # query[o]
        /\ ~BadHeader(r)
        /\ ~BadHeader(o)
        /\ exchange[r].state = "resolved"
        /\ exchange[o].state = "resolved"
        /\ response[r] # response[o]
        /\ response[r].kind = "http"
        /\ response[o].kind = "http"

\* C10: with the configured secret unset or empty no request is ever
\* authenticated: whatever its header, it is answered 401 and the
\* orchestrator is never invoked.
C10_NoSecretNoAccess ==
    (SECRET = None \/ SECRET = Some("")) =>
        \A r \in Reqs :
            /\ invoked[r] = 0
            /\ calls[r] = 0
            /\ exchange[r] = NoExchange
            /\ pc[r] \in {"new", "received", "done"}
            /\ pc[r] = "done" => Is401(response[r])

C10_Witness ==
    \E r \in Reqs :
        /\ SECRET = None
        /\ header[r] = None
        /\ pc[r] = "done"
        /\ Is401(response[r])
        /\ invoked[r] = 0

====
